---- MODULE Spec2Model ----
(***************************************************************************)
(* A model of the vendor fact sheet generator (src/generator.py) and of the *)
(* profile builder (src/vendor_data_generator.py):                         *)
(*   - the text of a presentation and search_and_replace over it,          *)
(*   - the two table formatters,                                           *)
(*   - the per-vendor loop of generate_vendor_fact_sheets,                 *)
(*   - the roster and the simulated spend years main prepares,             *)
(*   - the two profile lookups and the loop that stores their results.     *)
(* A string is a sequence of symbols (one-character strings, or whole      *)
(* words where the characters do not matter); "\n" is the newline symbol.  *)
(***************************************************************************)
EXTENDS Integers, Sequences, FiniteSets, TLC

VARIABLES
    \* ---- search_and_replace called on a document (SpecSR)
    srBefore,      \* the presentation's shapes before the call
    srAfter,       \* the presentation's shapes after the call (mutated in place)
    srRepl,        \* repl_str of the call
    srStatus,      \* "ready" | "returned" | "raised"
    \* ---- the table formatters called on a slice (SpecTable)
    tblData,       \* the rows handed to the formatter (contracting_data / sourcing_data)
    tblTable,      \* the table the formatter added to the slide
    tblStatus,     \* "ready" | "contracts" | "projects"
    \* ---- a run of generate_vendor_fact_sheets (Spec)
    it_spend,             \* the spend rows (with the simulated years)
    contracting_report,   \* the contract rows
    sourcing_event,       \* the project rows
    all_vendors_data,     \* the profile store read from all_vendors_data.json
    template,             \* the shapes of the template file's slide
    vendors,              \* the roster handed to the run
    existing,             \* the vendors whose files an earlier run left in place
    todo,                 \* the roster vendors the for loop has not reached yet
    vendor,               \* the loop variable
    pc,                   \* the position in the loop body, "done" or "aborted"
    error,                \* the exception that ended the run
    prs,                  \* the shapes of the working presentation's slide
    plotFiles,            \* the files of plots/: path -> content
    outputFiles,          \* the files of the output directory: path -> content
    today,                \* the day datetime.now() is in (an index of Dates)
    \* ---- the preparation functions of main called on the datasets (SpecPrep)
    simulated_data,       \* the frame simulate_historical_spend returned
    unique_vendors,       \* the set extract_unique_vendors returned
    prepStatus,           \* "ready" | "simulated" | "extracted"
    \* ---- the profile builder of vendor_data_generator.py (SpecProfile)
    test_vendors,         \* the vendors the building loop has not reached yet
    built,                \* vendor_data of main: the profiles built so far
    apiOutcome,           \* what the external call of the last lookup did
    returned,             \* what the last lookup gave back to its caller
    vdgPc                 \* "financials" | "trends" | "idle"

srVars == <<srBefore, srAfter, srRepl, srStatus>>
tblVars == <<tblData, tblTable, tblStatus>>
inputVars == <<it_spend, contracting_report, sourcing_event, all_vendors_data,
               template, vendors, existing>>
runVars == <<todo, vendor, pc, error, prs, plotFiles, outputFiles, today>>
prepVars == <<simulated_data, unique_vendors, prepStatus>>
vdgVars == <<test_vendors, built, apiOutcome, returned, vdgPc>>
vars == <<srVars, tblVars, inputVars, runVars, prepVars, vdgVars>>

(***************************************************************************)
(* Bounds of the model.                                                    *)
(***************************************************************************)
MaxParas == 2      \* paragraphs of the text frame under test
MaxExtra == 1      \* further shapes of the slide around it
MaxLines == 3      \* lines of a replacement value
MaxRows == 5       \* rows of a slice handed to a table formatter

NL == "\n"
None == "None"

(***************************************************************************)
(* Python str operations on sequences of symbols.                          *)
(***************************************************************************)
\* s[i:i+len(t)] == t
MatchAt(s, t, i) ==
    /\ i + Len(t) - 1 <= Len(s)
    /\ \A k \in 1..Len(t) : s[i + k - 1] = t[k]

\* t in s
Contains(s, t) == \E i \in 1..(Len(s) - Len(t) + 1) : MatchAt(s, t, i)

RECURSIVE ReplaceFrom(_, _, _, _)
ReplaceFrom(s, t, v, i) ==
    IF i > Len(s) THEN <<>>
    ELSE IF MatchAt(s, t, i) THEN v \o ReplaceFrom(s, t, v, i + Len(t))
    ELSE <<s[i]>> \o ReplaceFrom(s, t, v, i + 1)

\* s.replace(t, v) for a non-empty t: every occurrence, left to right
StrReplace(s, t, v) == ReplaceFrom(s, t, v, 1)

RECURSIVE SplitFrom(_, _, _)
SplitFrom(s, i, cur) ==
    IF i > Len(s) THEN <<cur>>
    ELSE IF s[i] = NL THEN <<cur>> \o SplitFrom(s, i + 1, <<>>)
    ELSE SplitFrom(s, i + 1, Append(cur, s[i]))

\* s.split('\n')
SplitLines(s) == SplitFrom(s, 1, <<>>)

RECURSIVE JoinFrom(_, _, _)
JoinFrom(parts, sep, i) ==
    IF i > Len(parts) THEN <<>>
    ELSE IF i = Len(parts) THEN parts[i]
    ELSE parts[i] \o sep \o JoinFrom(parts, sep, i + 1)

\* sep.join(parts)
Join(parts, sep) == JoinFrom(parts, sep, 1)

(***************************************************************************)
(* The text of a shape, as python-pptx shows it: a text frame is a         *)
(* sequence of paragraphs, a paragraph a sequence of runs, a run a text    *)
(* with a font (name, size, bold, italic; None where inherited).           *)
(***************************************************************************)
Run(text, font) == [text |-> text, font |-> font]

\* paragraph.text: the runs' texts, concatenated
ParaText(para) == Join([k \in 1..Len(para) |-> para[k].text], <<>>)

\* text_frame.text: the paragraphs' texts, joined by "\n"
FrameText(paragraphs) ==
    Join([k \in 1..Len(paragraphs) |-> ParaText(paragraphs[k])], <<NL>>)

TextShape(paragraphs) == [has_text_frame |-> TRUE, paragraphs |-> paragraphs]
\* a picture or a table (graphic frame): shape.has_text_frame is False
OtherShape(kind, content) ==
    [has_text_frame |-> FALSE, kind |-> kind, content |-> content]

(***************************************************************************)
(* search_and_replace (src/generator.py 328-369).                          *)
(***************************************************************************)
\* What the loop body does with one shape:
\*   "skip"    the shape has no text frame, or its text has no search_str, or
\*             search_str is not in the first paragraph (no else branch);
\*   "raise"   the first paragraph holds search_str and the frame has further
\*             paragraphs: text_frame._element is the txBody element, which has no
\*             get_or_add_trPr (a table-row method), so line 346 raises
\*             AttributeError before anything of the shape is changed;
\*   "replace" lines 350-369.
ShapeOutcome(search_str, shape) ==
    IF ~shape.has_text_frame THEN "skip"
    ELSE IF ~Contains(FrameText(shape.paragraphs), search_str) THEN "skip"
    ELSE IF ~(Len(shape.paragraphs) > 0) THEN "skip"
    ELSE IF ~Contains(ParaText(shape.paragraphs[1]), search_str) THEN "skip"
    ELSE IF Len(shape.paragraphs[1]) = 0 THEN "raise"
    ELSE IF Len(shape.paragraphs) > 1 THEN "raise"
    ELSE "replace"

\* Lines 342 and 350-369 on a frame with one paragraph. Assigning first_para.text
\* drops the paragraph's runs and adds one run holding the new text (none when the
\* new text is empty); every run of the paragraph then gets the first run's font.
\* Each further line becomes a new paragraph of one run with that font.
ReplaceInFrame(search_str, repl_str, paragraphs) ==
    LET first_para == paragraphs[1]
        original_font == first_para[1].font
        lines == SplitLines(repl_str)
        new_text == StrReplace(ParaText(first_para), search_str, lines[1])
        new_first == IF new_text = <<>> THEN <<>>
                     ELSE <<Run(new_text, original_font)>>
    IN  <<new_first>> \o
        [k \in 1..(Len(lines) - 1) |-> <<Run(lines[k + 1], original_font)>>]

RECURSIVE SarFrom(_, _, _, _)
SarFrom(search_str, repl_str, shapes, i) ==
    IF i > Len(shapes) THEN [shapes |-> shapes, raised |-> FALSE]
    ELSE LET outcome == ShapeOutcome(search_str, shapes[i]) IN
         IF outcome = "raise" THEN [shapes |-> shapes, raised |-> TRUE]
         ELSE IF outcome = "replace"
         THEN SarFrom(search_str, repl_str,
                      [shapes EXCEPT ![i] = TextShape(
                          ReplaceInFrame(search_str, repl_str, shapes[i].paragraphs))],
                      i + 1)
         ELSE SarFrom(search_str, repl_str, shapes, i + 1)

\* The shapes after the call, and whether the call raised (the shapes before the
\* raising one are already changed: the presentation is edited in place).
search_and_replace(search_str, repl_str, shapes) ==
    SarFrom(search_str, repl_str, shapes, 1)

(***************************************************************************)
(* Values of a data frame cell and their Python conversions.               *)
(***************************************************************************)
Digits == <<"0", "1", "2", "3", "4", "5", "6", "7", "8", "9">>
Letters == <<"a", "b", "c", "d", "e", "f", "g", "h", "i", "j">>
NaN == [k |-> "nan"]
NaT == [k |-> "NaT"]
StrVal(s) == [k |-> "str", s |-> s]
IntVal(n) == [k |-> "int", n |-> n]
\* a float given in hundredths (12.34 is Hundredths(1234))
Hundredths(h) == [k |-> "float", h |-> h]
Timestamp(y, m, d) == [k |-> "ts", year |-> y, month |-> m, day |-> d]

RECURSIVE IntToStr(_)
\* str(n) for n >= 0
IntToStr(n) ==
    IF n < 10 THEN <<Digits[n + 1]>>
    ELSE IntToStr(n \div 10) \o <<Digits[(n % 10) + 1]>>

\* two digits, zero padded
TwoDigits(n) == <<Digits[(n \div 10) + 1], Digits[(n % 10) + 1]>>

\* str(v)
PyStr(v) ==
    CASE v.k = "str" -> v.s
      [] v.k = "int" -> IntToStr(v.n)
      [] v.k = "nan" -> <<"n", "a", "n">>
      [] v.k = "NaT" -> <<"N", "a", "T">>

\* a slice that keeps one symbol too many
PrefixOffByOne(s, n) == SubSeq(s, 1, IF Len(s) < n + 1 THEN Len(s) ELSE n + 1)

\* s[:n]
Prefix(s, n) == SubSeq(s, 1, IF Len(s) < n THEN Len(s) ELSE n)

\* pd.notna(v)
NotNa(v) == v.k \notin {"nan", "NaT"}

\* f"{v.year}": the year of a Timestamp; NaT.year is nan
YearStr(v) == IF v.k = "ts" THEN IntToStr(v.year) ELSE <<"n", "a", "n">>

\* str(v.date()): yyyy-mm-dd
DateStr(v) ==
    IntToStr(v.year) \o <<"-">> \o TwoDigits(v.month) \o <<"-">> \o TwoDigits(v.day)

\* str(round(v, 1)) of a float >= 0 whose hundredths digit is not 5 (a tie is
\* decided by the binary value and is kept out of the inputs); nan stays nan
RoundStr(v) ==
    IF v.k = "nan" THEN <<"n", "a", "n">>
    ELSE LET tenths == (v.h + 5) \div 10
         IN  IntToStr(tenths \div 10) \o <<".">> \o <<Digits[(tenths % 10) + 1]>>

(***************************************************************************)
(* The table formatters (src/generator.py 105-263).                        *)
(***************************************************************************)
ContractsCap == 4
ProjectsCap == 3
IdLimit == 8
ContractNameLimit == 15
ContractDescLimit == 25
ProjectNameLimit == 20
ProjectDescLimit == 30
RowHeightMm == 6
TableWidthMm == 190

\* the euro sign of the two amount headers is written EUR
ContractHeaders ==
    <<"ID", "Name", "Short description", "Term", "Exp. date", "TCV (EURm)">>
ContractColWidthsMm == <<25, 35, 50, 30, 25, 25>>
ProjectHeaders == <<"Project", "Name", "Short Description", "Value (EURm)">>
ProjectColWidthsMm == <<40, 50, 70, 30>>

HeaderFont == [name |-> "Arial", size |-> "Pt9", bold |-> "True", italic |-> None]
CellFont == [name |-> "Arial", size |-> "Pt9", bold |-> None, italic |-> None]
Cell(text, font) == [text |-> text, font |-> font]

\* the row count without the one blank row of an empty slice
TableRowCountNoBlank(data, cap) == IF Len(data) < cap THEN Len(data) ELSE cap

\* rows = min(len(data), cap) if not data.empty else 1
TableRowCount(data, cap) ==
    IF Len(data) # 0 THEN (IF Len(data) < cap THEN Len(data) ELSE cap) ELSE 1

\* The Term cell (lines 165-166): only the effective date is tested
ContractTerm(row) ==
    IF NotNa(row.effective) THEN YearStr(row.effective) \o <<"-">> \o YearStr(row.expiration)
    ELSE <<"N", "/", "A">>

\* The cells of one contract (lines 161-170)
ContractCells(row) == <<
    Prefix(PyStr(row.id), IdLimit),
    Prefix(PyStr(row.name), ContractNameLimit),
    Prefix(PyStr(row.description), ContractDescLimit),
    ContractTerm(row),
    IF NotNa(row.expiration) THEN DateStr(row.expiration) ELSE <<"N", "/", "A">>,
    RoundStr(row.amount) >>

\* The cells of one project (lines 240-247)
ProjectCells(row) == <<
    Prefix(PyStr(row.id), IdLimit),
    Prefix(PyStr(row.name), ProjectNameLimit),
    Prefix(PyStr(row.description), ProjectDescLimit),
    RoundStr(row.amount) >>

\* The table both formatters build: the header row, then either the first `rows`
\* rows of the data or, for empty data, one row of empty cells.
BuildTable(headers, col_widths, cap, data, cells) ==
    LET rows == TableRowCount(data, cap)
        cols == Len(headers)
        header == [c \in 1..cols |-> Cell(<<headers[c]>>, HeaderFont)]
        filled == IF Len(data) # 0 THEN (IF rows < Len(data) THEN rows ELSE Len(data))
                  ELSE 0
        NewCell == Cell(<<>>, [CellFont EXCEPT !.size = None, !.name = None])
        bodyRow(r) ==
            IF Len(data) # 0
            THEN (IF r <= filled
                  THEN [c \in 1..cols |-> Cell(cells[r][c], CellFont)]
                  ELSE [c \in 1..cols |-> NewCell])   \* a row no loop writes
            ELSE [c \in 1..cols |-> Cell(<<>>, CellFont)]
    IN  [ cells |-> <<header>> \o [r \in 1..rows |-> bodyRow(r)],
          col_widths |-> col_widths,
          row_heights |-> [r \in 1..(rows + 1) |-> RowHeightMm],
          width |-> TableWidthMm,
          height |-> rows * RowHeightMm ]

generate_key_contracts_table(contracting_data) ==
    BuildTable(ContractHeaders, ContractColWidthsMm, ContractsCap, contracting_data,
               [r \in 1..Len(contracting_data) |-> ContractCells(contracting_data[r])])

generate_planned_projects_table(sourcing_data) ==
    BuildTable(ProjectHeaders, ProjectColWidthsMm, ProjectsCap, sourcing_data,
               [r \in 1..Len(sourcing_data) |-> ProjectCells(sourcing_data[r])])

(***************************************************************************)
(* SpecSR: one call of search_and_replace on a drawn document.             *)
(***************************************************************************)
Tok == <<"[", "T", "]">>

FontA == [name |-> "Arial", size |-> "Pt12", bold |-> "True", italic |-> "False"]
FontB == [name |-> "Calibri", size |-> None, bold |-> None, italic |-> "True"]

\* The paragraphs a frame under test is built from.
SrParas == {
    << Run(Tok, FontA) >>,                               \* the token alone
    << Run(<<"a">> \o Tok, FontB), Run(<<"b">>, FontA) >>, \* token, then another run
    << Run(<<"[", "T">>, FontA), Run(<<"]">>, FontA) >>,   \* token split over two runs
    << Run(<<"b">>, FontB) >>,                           \* no token
    << >> }                                              \* an empty paragraph

RECURSIVE SeqsUpTo(_, _)
\* the sequences over S of length 0..n
SeqsUpTo(S, n) ==
    IF n = 0 THEN {<<>>}
    ELSE LET shorter == SeqsUpTo(S, n - 1)
         IN  shorter \cup {Append(q, x) : q \in {r \in shorter : Len(r) = n - 1}, x \in S}

SrFrames == {TextShape(ps) : ps \in SeqsUpTo(SrParas, MaxParas) \ {<<>>}}

\* The shapes around the frame under test.
SrExtras == {
    OtherShape("picture", "chart"),
    TextShape(<< << Run(<<"c">>, FontB) >> >>),
    TextShape(<< << Run(Tok, FontB) >> >>) }

\* A document: the frame under test with up to MaxExtra shapes before or after it.
SrDocs ==
    {d \in {pre \o <<f>> \o post :
                f \in SrFrames,
                pre \in SeqsUpTo(SrExtras, MaxExtra),
                post \in SeqsUpTo(SrExtras, MaxExtra)} :
        Len(d) <= 1 + MaxExtra}

\* Replacement values: 1..MaxLines lines, each empty or "x", joined by "\n";
\* and one value that holds the token itself.
SrLines == {<<>>, <<"x">>}
SrRepls ==
    {Join(ls, <<NL>>) : ls \in SeqsUpTo(SrLines, MaxLines) \ {<<>>}}
        \cup {<<"x">> \o Tok}

\* Under SpecSR the variables of the other specifications rest.
PrepIdle == /\ simulated_data = <<>>
            /\ unique_vendors = {}
            /\ prepStatus = "idle"

VdgIdle == /\ test_vendors = <<>>
           /\ built = <<>>
           /\ apiOutcome = [kind |-> None]
           /\ returned = [raised |-> FALSE, fn |-> None]
           /\ vdgPc = "idle"

TblIdle == /\ tblData = <<>>
           /\ tblTable = <<>>
           /\ tblStatus = "idle"

RunIdle == /\ it_spend = <<>>
           /\ contracting_report = <<>>
           /\ sourcing_event = <<>>
           /\ all_vendors_data = <<>>
           /\ template = <<>>
           /\ vendors = {}
           /\ existing = {}
           /\ todo = {}
           /\ vendor = None
           /\ pc = "idle"
           /\ error = None
           /\ prs = <<>>
           /\ plotFiles = <<>>
           /\ outputFiles = <<>>
           /\ today = 1

InitSR ==
    /\ srBefore \in SrDocs
    /\ srAfter = srBefore
    /\ srRepl = <<>>
    /\ srStatus = "ready"
    /\ TblIdle
    /\ RunIdle
    /\ PrepIdle
    /\ VdgIdle

SearchAndReplaceCall ==
    /\ srStatus = "ready"
    /\ \E repl_str \in SrRepls :
        LET r == search_and_replace(Tok, repl_str, srBefore) IN
        /\ srRepl' = repl_str
        /\ srAfter' = r.shapes
        /\ srStatus' = IF r.raised THEN "raised" ELSE "returned"
    /\ UNCHANGED <<srBefore, tblVars, inputVars, runVars, prepVars, vdgVars>>

NextSR == SearchAndReplaceCall

SpecSR == InitSR /\ [][NextSR]_vars

(***************************************************************************)
(* SpecTable: one call of a table formatter on a drawn slice.              *)
(***************************************************************************)
\* a string of n symbols that starts with c
Word(c, n) == <<c>> \o [i \in 1..(n - 1) |-> Letters[(i % 10) + 1]]

ContractRow(id, name, description, effective, expiration, amount) ==
    [id |-> id, name |-> name, description |-> description,
     effective |-> effective, expiration |-> expiration, amount |-> amount]

\* Contracts: values below, at and above each column's limit; every combination of
\* a present and a missing date.
ContractRows == {
    ContractRow(StrVal(Word("C", 7)), StrVal(Word("N", 10)), StrVal(Word("D", 24)),
                Timestamp(2020, 1, 1), Timestamp(2025, 1, 1), Hundredths(1234)),
    ContractRow(IntVal(123456789), StrVal(Word("M", 15)), StrVal(Word("E", 25)),
                NaT, Timestamp(2025, 12, 31), Hundredths(50000)),
    ContractRow(StrVal(Word("X", 9)), StrVal(Word("O", 16)), StrVal(Word("F", 26)),
                Timestamp(2021, 6, 15), NaT, NaN),
    ContractRow(NaN, NaN, StrVal(<<>>), NaT, NaT, Hundredths(7)) }

ProjectRow(id, name, description, amount) ==
    [id |-> id, name |-> name, description |-> description, amount |-> amount]

ProjectRows == {
    ProjectRow(StrVal(Word("P", 7)), StrVal(Word("N", 9)), StrVal(Word("D", 31)),
               Hundredths(1234)),
    ProjectRow(IntVal(123456789), StrVal(Word("M", 20)), StrVal(Word("E", 30)), NaN),
    ProjectRow(StrVal(Word("Q", 9)), StrVal(Word("O", 21)), NaN, Hundredths(19999)) }

SrIdle == /\ srBefore = <<>>
          /\ srAfter = <<>>
          /\ srRepl = <<>>
          /\ srStatus = "idle"

InitTable ==
    /\ tblData \in {[kind |-> "contracts", rows |-> rs] : rs \in SeqsUpTo(ContractRows, MaxRows)}
              \cup {[kind |-> "projects", rows |-> rs] : rs \in SeqsUpTo(ProjectRows, MaxRows)}
    /\ tblTable = <<>>
    /\ tblStatus = "ready"
    /\ SrIdle
    /\ RunIdle
    /\ PrepIdle
    /\ VdgIdle

GenerateKeyContractsTable ==
    /\ tblStatus = "ready"
    /\ tblData.kind = "contracts"
    /\ tblTable' = generate_key_contracts_table(tblData.rows)
    /\ tblStatus' = "contracts"
    /\ UNCHANGED <<tblData, srVars, inputVars, runVars, prepVars, vdgVars>>

GeneratePlannedProjectsTable ==
    /\ tblStatus = "ready"
    /\ tblData.kind = "projects"
    /\ tblTable' = generate_planned_projects_table(tblData.rows)
    /\ tblStatus' = "projects"
    /\ UNCHANGED <<tblData, srVars, inputVars, runVars, prepVars, vdgVars>>

NextTable == GenerateKeyContractsTable \/ GeneratePlannedProjectsTable

SpecTable == InitTable /\ [][NextTable]_vars

(***************************************************************************)
(* The vendor roster and the placeholder map (src/generator.py 61-85,      *)
(* 372-407).                                                               *)
(***************************************************************************)
\* the values of one column of a data frame, as a set
Column(frame, field) == {frame[i][field] : i \in 1..Len(frame)}

\* frame[frame[field] == value]: the matching rows, in the frame's order
RowsWhere(frame, field, value) == SelectSeq(frame, LAMBDA row : row[field] = value)

\* extract_unique_vendors without the sourcing dataset
extract_unique_vendors_two(spend, contracts, sourcing) ==
    Column(spend, "vendor") \cup Column(contracts, "supplier")

extract_unique_vendors(spend, contracts, sourcing) ==
    Column(spend, "vendor") \cup Column(contracts, "supplier") \cup Column(sourcing, "supplier")

Dates == <<"01.11.2026", "02.11.2026">>

\* "\n".join(f"{bullet} {x}" for x in xs); the bullet character is written "*"
Bullets(xs) == Join([k \in 1..Len(xs) |-> <<"* ", xs[k]>>], <<NL>>)

ProfileKeys ==
    {"Financials", "KeyAccountManagers", "KeyStakeholders", "MarketTrends", "Strategy", "Msg"}

\* The (placeholder, value) pairs in the order of the replacements dict.
Replacements(vendor_name, vendor_data, day) == <<
    << <<"[Timestamp]">>, <<"VENDOR FACT SHEET - AS AT ", Dates[day]>> >>,
    << <<"[Vendor Name]">>, <<vendor_name>> >>,
    << <<"[KeyAccountManagers]">>, Bullets(vendor_data.KeyAccountManagers) >>,
    << <<"[KeyStakeholders]">>, Bullets(vendor_data.KeyStakeholders) >>,
    << <<"[Financials]">>,
       <<"* Revenue: ", vendor_data.Financials.Revenue, NL,
         "* Market Cap: ", vendor_data.Financials.MarketCap, NL,
         "* Growth Rate: ", vendor_data.Financials.GrowthRate>> >>,
    << <<"[MarketTrends]">>, vendor_data.MarketTrends >>,
    << <<"[Strategy]">>, vendor_data.Strategy >>,
    << <<"[Msg]">>, vendor_data.Msg >> >>

RECURSIVE ReplaceEach(_, _, _)
\* lines 406-407: one search_and_replace per pair; a raising call ends the loop
ReplaceEach(pairs, shapes, i) ==
    IF i > Len(pairs) THEN [shapes |-> shapes, raised |-> None]
    ELSE LET r == search_and_replace(pairs[i][1], pairs[i][2], shapes) IN
         IF r.raised THEN [shapes |-> r.shapes, raised |-> "AttributeError"]
         ELSE ReplaceEach(pairs, r.shapes, i + 1)

\* A profile that lacks one of the keys read at lines 385-403 raises KeyError
\* before any placeholder is replaced.
replace_vendor_placeholders(shapes, vendor_name, vendor_data, day) ==
    IF ~(ProfileKeys \subseteq DOMAIN vendor_data)
    THEN [shapes |-> shapes, raised |-> "KeyError"]
    ELSE ReplaceEach(Replacements(vendor_name, vendor_data, day), shapes, 1)

(***************************************************************************)
(* Spec: a run of generate_vendor_fact_sheets (src/generator.py 410-482).  *)
(***************************************************************************)
Vendors == {"Acme", "Bolt", "Cato"}

TitleFont == [name |-> "Arial", size |-> "Pt20", bold |-> "True", italic |-> None]
BodyFont == [name |-> "Arial", size |-> "Pt10", bold |-> None, italic |-> None]
Box(text, font) == TextShape(<< <<Run(text, font)>> >>)

\* The template's slide: a heading, and one text box per placeholder token.
TemplateSlide == <<
    Box(<<"[Timestamp]">>, TitleFont),
    Box(<<"[Vendor Name]">>, TitleFont),
    Box(<<"Key contracts">>, BodyFont),
    Box(<<"[KeyAccountManagers]">>, BodyFont),
    Box(<<"[KeyStakeholders]">>, BodyFont),
    Box(<<"[Financials]">>, BodyFont),
    Box(<<"[MarketTrends]">>, BodyFont),
    Box(<<"[Strategy]">>, BodyFont),
    Box(<<"[Msg]">>, BodyFont) >>

\* A profile as vendor_data_generator.py writes it, and one that lacks a key.
FullProfile ==
    [ Financials |-> [Revenue |-> "100 USD", MarketCap |-> "200 USD", GrowthRate |-> "5%"],
      KeyAccountManagers |-> <<"Manager 1", "Manager 2">>,
      KeyStakeholders |-> <<"Stakeholder 1", "Stakeholder 2">>,
      MarketTrends |-> <<"- trend">>,
      Strategy |-> <<"- Negotiate competitive pricing.", NL, "- Enhance collaboration.">>,
      Msg |-> <<"- Strengthen partnership.">> ]
PartialProfile ==
    [ KeyAccountManagers |-> <<"Manager 1">>,
      KeyStakeholders |-> <<"Stakeholder 1">>,
      MarketTrends |-> <<"- trend">>,
      Strategy |-> <<"- Negotiate competitive pricing.">>,
      Msg |-> <<"- Strengthen partnership.">> ]

SpendRow(v) == [vendor |-> v, spend2022 |-> Hundredths(8000),
                spend2023 |-> Hundredths(9000), spend2024 |-> Hundredths(10000)]
SampleContract(v) ==
    [supplier |-> v, id |-> StrVal(Word("C", 7)), name |-> StrVal(Word("N", 10)),
     description |-> StrVal(Word("D", 24)), effective |-> Timestamp(2020, 1, 1),
     expiration |-> Timestamp(2025, 1, 1), amount |-> Hundredths(1234)]
SampleProject(v) ==
    [supplier |-> v, id |-> StrVal(Word("P", 7)), name |-> StrVal(Word("N", 9)),
     description |-> StrVal(Word("D", 31)), amount |-> Hundredths(1234)]

\* The frames hold one row per vendor of vs, in a fixed order.
VendorOrder == <<"Acme", "Bolt", "Cato">>
InOrder(vs) == SelectSeq(VendorOrder, LAMBDA v : v \in vs)
SpendFrame(vs) == [i \in 1..Len(InOrder(vs)) |-> SpendRow(InOrder(vs)[i])]
ContractFrame(vs) == [i \in 1..Len(InOrder(vs)) |-> SampleContract(InOrder(vs)[i])]
ProjectFrame(vs) == [i \in 1..Len(InOrder(vs)) |-> SampleProject(InOrder(vs)[i])]

DocPath(v) == <<"output", v, "_Vendor_Fact_Sheet.pptx">>
ChartPath(v) == <<"plots", v, "_spend_chart.png">>

Init ==
    /\ it_spend \in {SpendFrame(vs) : vs \in SUBSET Vendors}
    /\ contracting_report \in {ContractFrame(vs) : vs \in SUBSET {"Acme"}}
    /\ sourcing_event \in {ProjectFrame(vs) : vs \in SUBSET {"Cato"}}
    /\ all_vendors_data \in
           UNION {[vs -> {FullProfile, PartialProfile}] : vs \in SUBSET Vendors}
    /\ template = TemplateSlide
    /\ vendors = extract_unique_vendors(it_spend, contracting_report, sourcing_event)
    /\ todo = vendors
    /\ vendor = None
    /\ pc = "top"
    /\ error = None
    /\ prs = template
    /\ plotFiles = <<>>
    /\ outputFiles = <<>>
    /\ today = 1
    /\ existing = {}
    /\ SrIdle
    /\ TblIdle
    /\ PrepIdle
    /\ VdgIdle

\* BeginVendor going on with the presentation of the vendor before
BeginVendorSamePrs ==
    /\ pc = "top"
    /\ \E v \in todo :
        /\ vendor' = v
        /\ todo' = todo \ {v}
    /\ pc' = "chart"
    /\ UNCHANGED <<prs, error, plotFiles, outputFiles, today>>
    /\ UNCHANGED <<srVars, tblVars, inputVars, prepVars, vdgVars>>

\* lines 439-450: the loop takes the next vendor of the set (in no fixed order)
\* and opens the template anew
BeginVendor ==
    /\ pc = "top"
    /\ \E v \in todo :
        /\ vendor' = v
        /\ todo' = todo \ {v}
    /\ prs' = template
    /\ pc' = "chart"
    /\ UNCHANGED <<error, plotFiles, outputFiles, today>>
    /\ UNCHANGED <<srVars, tblVars, inputVars, prepVars, vdgVars>>

\* line 463: vendor_spend.iloc[0] raises IndexError on an empty slice; otherwise
\* the chart of the first row is written to plots/
RenderChart ==
    /\ pc = "chart"
    /\ LET vendor_spend == RowsWhere(it_spend, "vendor", vendor) IN
       IF Len(vendor_spend) = 0
       THEN /\ pc' = "aborted"
            /\ error' = "IndexError"
            /\ UNCHANGED plotFiles
       ELSE /\ plotFiles' = (ChartPath(vendor) :> vendor_spend[1]) @@ plotFiles
            /\ pc' = "image"
            /\ UNCHANGED error
    /\ UNCHANGED <<todo, vendor, prs, outputFiles, today>>
    /\ UNCHANGED <<srVars, tblVars, inputVars, prepVars, vdgVars>>

\* line 466
AddImage ==
    /\ pc = "image"
    /\ prs' = Append(prs, OtherShape("picture", ChartPath(vendor)))
    /\ pc' = "contracts"
    /\ UNCHANGED <<todo, vendor, error, plotFiles, outputFiles, today>>
    /\ UNCHANGED <<srVars, tblVars, inputVars, prepVars, vdgVars>>

\* line 469
AddContractsTable ==
    /\ pc = "contracts"
    /\ prs' = Append(prs, OtherShape("table",
                  generate_key_contracts_table(
                      RowsWhere(contracting_report, "supplier", vendor))))
    /\ pc' = "projects"
    /\ UNCHANGED <<todo, vendor, error, plotFiles, outputFiles, today>>
    /\ UNCHANGED <<srVars, tblVars, inputVars, prepVars, vdgVars>>

\* line 472
AddProjectsTable ==
    /\ pc = "projects"
    /\ prs' = Append(prs, OtherShape("table",
                  generate_planned_projects_table(
                      RowsWhere(sourcing_event, "supplier", vendor))))
    /\ pc' = "placeholders"
    /\ UNCHANGED <<todo, vendor, error, plotFiles, outputFiles, today>>
    /\ UNCHANGED <<srVars, tblVars, inputVars, prepVars, vdgVars>>

\* lines 475-476
ReplacePlaceholders ==
    /\ pc = "placeholders"
    /\ IF vendor \in DOMAIN all_vendors_data
       THEN LET r == replace_vendor_placeholders(prs, vendor, all_vendors_data[vendor], today)
            IN  /\ prs' = r.shapes
                /\ error' = r.raised
                /\ pc' = IF r.raised = None THEN "save" ELSE "aborted"
       ELSE /\ pc' = "save"
            /\ UNCHANGED <<prs, error>>
    /\ UNCHANGED <<todo, vendor, plotFiles, outputFiles, today>>
    /\ UNCHANGED <<srVars, tblVars, inputVars, prepVars, vdgVars>>

\* SaveDocument putting the new file in place of the whole directory
SaveDocumentAlone ==
    /\ pc = "save"
    /\ outputFiles' = (DocPath(vendor) :> prs)
    /\ pc' = "top"
    /\ UNCHANGED <<todo, vendor, error, prs, plotFiles, today>>
    /\ UNCHANGED <<srVars, tblVars, inputVars, prepVars, vdgVars>>

\* SaveDocument with a file name that does not hold the vendor
SaveDocumentOneName ==
    /\ pc = "save"
    /\ outputFiles' = (DocPath("Vendor") :> prs) @@ outputFiles
    /\ pc' = "top"
    /\ UNCHANGED <<todo, vendor, error, prs, plotFiles, today>>
    /\ UNCHANGED <<srVars, tblVars, inputVars, prepVars, vdgVars>>

\* lines 479-480: prs.save writes the file anew, whether or not it exists
SaveDocument ==
    /\ pc = "save"
    /\ outputFiles' = (DocPath(vendor) :> prs) @@ outputFiles
    /\ pc' = "top"
    /\ UNCHANGED <<todo, vendor, error, prs, plotFiles, today>>
    /\ UNCHANGED <<srVars, tblVars, inputVars, prepVars, vdgVars>>

\* line 482: the loop is over
Finish ==
    /\ pc = "top"
    /\ todo = {}
    /\ pc' = "done"
    /\ UNCHANGED <<todo, vendor, error, prs, plotFiles, outputFiles, today>>
    /\ UNCHANGED <<srVars, tblVars, inputVars, prepVars, vdgVars>>

\* midnight passes during the run
Midnight ==
    /\ pc \notin {"done", "aborted"}
    /\ today < Len(Dates)
    /\ today' = today + 1
    /\ UNCHANGED <<todo, vendor, pc, error, prs, plotFiles, outputFiles>>
    /\ UNCHANGED <<srVars, tblVars, inputVars, prepVars, vdgVars>>

Next ==
    \/ BeginVendor
    \/ RenderChart
    \/ AddImage
    \/ AddContractsTable
    \/ AddProjectsTable
    \/ ReplacePlaceholders
    \/ SaveDocument
    \/ Finish
    \/ Midnight

Spec == Init /\ [][Next]_vars

(***************************************************************************)
(* SpecRerun: the same run, started with the files of an earlier run still *)
(* in output/ and plots/ (both directories are made with exist_ok=True and *)
(* never emptied, lines 277 and 433).                                      *)
(***************************************************************************)
\* the vendors of the earlier run; "Zeta" is in none of today's datasets
EarlierVendors == {"Acme", "Zeta"}
EarlierDoc == <<Box(<<"earlier run">>, BodyFont)>>
EarlierChart == [vendor |-> "earlier run", spend2022 |-> Hundredths(100),
                 spend2023 |-> Hundredths(100), spend2024 |-> Hundredths(100)]
ExistingDocs(vs) == [p \in {DocPath(v) : v \in vs} |-> EarlierDoc]
ExistingCharts(vs) == [p \in {ChartPath(v) : v \in vs} |-> EarlierChart]

InitRerun ==
    /\ it_spend \in {SpendFrame(vs) : vs \in SUBSET Vendors}
    /\ contracting_report \in {ContractFrame(vs) : vs \in SUBSET {"Acme"}}
    /\ sourcing_event = <<>>
    /\ all_vendors_data \in {[v \in vs |-> FullProfile] : vs \in SUBSET Vendors}
    /\ template = TemplateSlide
    /\ vendors = extract_unique_vendors(it_spend, contracting_report, sourcing_event)
    /\ existing \in SUBSET EarlierVendors
    /\ todo = vendors
    /\ vendor = None
    /\ pc = "top"
    /\ error = None
    /\ prs = template
    /\ plotFiles = ExistingCharts(existing)
    /\ outputFiles = ExistingDocs(existing)
    /\ today = 1
    /\ SrIdle
    /\ TblIdle
    /\ PrepIdle
    /\ VdgIdle

SpecRerun == InitRerun /\ [][Next]_vars

(***************************************************************************)
(* SpecPrep: the two preparation functions main calls on the cleaned       *)
(* datasets (src/generator.py 61-101). Here it_spend is main's frame, with *)
(* the 2024 column only. A spend is an exact decimal, held as an integer   *)
(* of 10^-4 EURm; a draw of random.uniform(-0.2, 0.2) is held in percent.  *)
(***************************************************************************)
MaxSpendRows == 2      \* rows of the spend frame handed to the two functions

\* values random.uniform(-0.2, 0.2) can return: both ends and one in between
Draws == {-20, 7, 20}

\* spend2022 taken from the 2024 column instead of the simulated 2023 column
SimulatedRowFrom2024(row, u1, u2) ==
    [vendor |-> row.vendor,
     spend2024 |-> row.spend2024,
     spend2023 |-> (row.spend2024 * (100 + u1)) \div 100,
     spend2022 |-> (row.spend2024 * (100 + u2)) \div 100]

\* lines 99-100 on one row: the 2023 column is the 2024 column times (1 + u1),
\* the 2022 column is the new 2023 column times (1 + u2)
SimulatedRow(row, u1, u2) ==
    LET spend2023 == (row.spend2024 * (100 + u1)) \div 100 IN
    [vendor |-> row.vendor,
     spend2024 |-> row.spend2024,
     spend2023 |-> spend2023,
     spend2022 |-> (spend2023 * (100 + u2)) \div 100]

\* draws[i] is the pair of values drawn for row i; the frame handed in is
\* copied (line 98), the copy is returned
simulate_historical_spend(frame, draws) ==
    [i \in 1..Len(frame) |-> SimulatedRow(frame[i], draws[i][1], draws[i][2])]

RawSpendRow(v, spend) == [vendor |-> v, spend2024 |-> spend]
RawSpendRows ==
    { RawSpendRow("Acme", 20000), RawSpendRow("Bolt", 0), RawSpendRow("Acme", -20000) }

InitPrep ==
    /\ it_spend \in SeqsUpTo(RawSpendRows, MaxSpendRows)
    /\ contracting_report \in
           {ContractFrame(vs) : vs \in {{}, {"Acme"}, {"Acme", "Cato"}}}
    /\ sourcing_event \in
           {ProjectFrame(vs) : vs \in {{}, {"Cato"}, {"Bolt", "Cato"}}}
    /\ simulated_data = <<>>
    /\ unique_vendors = {}
    /\ prepStatus = "ready"
    /\ all_vendors_data = <<>>
    /\ template = <<>>
    /\ vendors = {}
    /\ existing = {}
    /\ todo = {}
    /\ vendor = None
    /\ pc = "idle"
    /\ error = None
    /\ prs = <<>>
    /\ plotFiles = <<>>
    /\ outputFiles = <<>>
    /\ today = 1
    /\ SrIdle
    /\ TblIdle
    /\ VdgIdle

\* main, line 491
SimulateHistoricalSpend ==
    /\ prepStatus = "ready"
    /\ \E draws \in [1..Len(it_spend) -> Draws \X Draws] :
        simulated_data' = simulate_historical_spend(it_spend, draws)
    /\ prepStatus' = "simulated"
    /\ UNCHANGED <<unique_vendors, srVars, tblVars, inputVars, runVars, vdgVars>>

\* main, line 494
ExtractUniqueVendors ==
    /\ prepStatus = "ready"
    /\ unique_vendors' =
           extract_unique_vendors(it_spend, contracting_report, sourcing_event)
    /\ prepStatus' = "extracted"
    /\ UNCHANGED <<simulated_data, srVars, tblVars, inputVars, runVars, vdgVars>>

NextPrep == SimulateHistoricalSpend \/ ExtractUniqueVendors

SpecPrep == InitPrep /\ [][NextPrep]_vars

(***************************************************************************)
(* SpecProfile: the profile builder (src/vendor_data_generator.py). The    *)
(* text of a reply is a sequence of symbols: the JSON punctuation, the     *)
(* quote, white space, and whole words for everything else.                *)
(***************************************************************************)
Q == "\""
JsonPunct == {"{", "}", ":", ",", Q}
WhiteSpace == {" ", NL}

\* the string literal at position i of t: a quote, one word, a quote
IsStrAt(t, i) ==
    /\ i + 2 <= Len(t)
    /\ t[i] = Q
    /\ t[i + 1] \notin JsonPunct
    /\ t[i + 2] = Q

RECURSIVE ParseMembers(_, _, _)
\* the members of an object from position i on, up to the closing brace: the
\* position after the brace and the dict (a repeated key keeps its last value),
\* or pos = 0 where the text is not a member list
ParseMembers(t, i, acc) ==
    IF ~(IsStrAt(t, i) /\ i + 3 <= Len(t) /\ t[i + 3] = ":" /\ IsStrAt(t, i + 4)
         /\ i + 7 <= Len(t))
    THEN [pos |-> 0, dict |-> acc]
    ELSE LET dict == (t[i + 1] :> t[i + 5]) @@ acc IN
         IF t[i + 7] = "}" THEN [pos |-> i + 8, dict |-> dict]
         ELSE IF t[i + 7] = "," THEN ParseMembers(t, i + 8, dict)
         ELSE [pos |-> 0, dict |-> acc]

\* json.loads(text): an object of string members or a string; ok is FALSE
\* where json.loads raises JSONDecodeError (no value, a value cut short, text
\* around the value)
json_loads(text) ==
    LET t == SelectSeq(text, LAMBDA c : c \notin WhiteSpace)
        bad == [ok |-> FALSE, value |-> [k |-> None]]
    IN  IF Len(t) = 0 THEN bad
        ELSE IF t[1] = "{"
        THEN IF Len(t) >= 2 /\ t[2] = "}"
             THEN IF Len(t) = 2 THEN [ok |-> TRUE, value |-> [k |-> "dict", v |-> <<>>]]
                  ELSE bad
             ELSE LET m == ParseMembers(t, 2, <<>>) IN
                  IF m.pos = Len(t) + 1
                  THEN [ok |-> TRUE, value |-> [k |-> "dict", v |-> m.dict]]
                  ELSE bad
        ELSE IF IsStrAt(t, 1) /\ Len(t) = 3
        THEN [ok |-> TRUE, value |-> [k |-> "str", v |-> t[2]]]
        ELSE bad

RECURSIVE LStrip(_)
LStrip(text) ==
    IF Len(text) > 0 /\ text[1] \in WhiteSpace THEN LStrip(Tail(text)) ELSE text

RECURSIVE RStrip(_)
RStrip(text) ==
    IF Len(text) > 0 /\ text[Len(text)] \in WhiteSpace
    THEN RStrip(SubSeq(text, 1, Len(text) - 1)) ELSE text

\* text.strip()
Strip(text) == RStrip(LStrip(text))

\* What client.chat.completions.create does: it raises, or it returns a
\* response with a list of choices, each with a message content (a text or None).
ApiRaises == [kind |-> "raises"]
ApiReply(choices) == [kind |-> "reply", choices |-> choices]
NoContent == [k |-> None]
Content(text) == [k |-> "text", text |-> text]

FinancialsFallback ==
    [k |-> "dict",
     v |-> [Revenue |-> "Data not available", MarketCap |-> "Data not available",
            GrowthRate |-> "Data not available"]]
TrendsFallback == [k |-> "str", v |-> <<"- Market trend data not available">>]

\* What a lookup gives its caller: raised is TRUE where an exception leaves the
\* function; via names the return statement taken.
Returns(fn, via, value) == [raised |-> FALSE, fn |-> fn, via |-> via, value |-> value]
Raises(fn) == [raised |-> TRUE, fn |-> fn, via |-> "exception", value |-> [k |-> None]]

\* get_vendor_financials with the inner handler only
get_vendor_financials_inner_only(outcome) ==
    LET fn == "get_vendor_financials" IN
    IF outcome.kind = "raises" THEN Raises(fn)
    ELSE IF Len(outcome.choices) = 0 THEN Raises(fn)
    ELSE IF outcome.choices[1].k = None THEN Raises(fn)
    ELSE LET parsed == json_loads(outcome.choices[1].text) IN
         IF parsed.ok THEN Returns(fn, "line 49", parsed.value)
         ELSE Returns(fn, "line 55", FinancialsFallback)

\* lines 33-68. The outer handler (except Exception) takes what the call raises,
\* the IndexError of choices[0] on a reply without choices (line 44) and the
\* TypeError of json.loads(None) (line 49); the inner handler takes
\* JSONDecodeError.
get_vendor_financials(outcome) ==
    LET fn == "get_vendor_financials" IN
    IF outcome.kind = "raises" THEN Returns(fn, "line 64", FinancialsFallback)
    ELSE IF Len(outcome.choices) = 0 THEN Returns(fn, "line 64", FinancialsFallback)
    ELSE IF outcome.choices[1].k = None THEN Returns(fn, "line 64", FinancialsFallback)
    ELSE LET parsed == json_loads(outcome.choices[1].text) IN
         IF parsed.ok THEN Returns(fn, "line 49", parsed.value)
         ELSE Returns(fn, "line 55", FinancialsFallback)

\* lines 83-95. The handler takes what the call raises, the IndexError of
\* choices[0] and the AttributeError of None.strip().
get_market_trends(outcome) ==
    LET fn == "get_market_trends" IN
    IF outcome.kind = "raises" THEN Returns(fn, "line 95", TrendsFallback)
    ELSE IF Len(outcome.choices) = 0 THEN Returns(fn, "line 95", TrendsFallback)
    ELSE IF outcome.choices[1].k = None THEN Returns(fn, "line 95", TrendsFallback)
    ELSE Returns(fn, "line 92", [k |-> "str", v |-> Strip(outcome.choices[1].text)])

JsonStr(word) == <<Q, word, Q>>
JsonMember(key, word) == JsonStr(key) \o <<":", " ">> \o JsonStr(word)
FinancialsJson ==
    <<"{", NL>> \o JsonMember("Revenue", "100 USD") \o <<",", NL>>
        \o JsonMember("MarketCap", "200 USD") \o <<",", NL>>
        \o JsonMember("GrowthRate", "5%") \o <<NL, "}">>

\* the replies to the financials prompt: the object asked for, other JSON, the
\* object in a code fence (written with tildes), cut short, followed by prose,
\* an empty text, no content, no choice
FinancialsReplies == {
    ApiReply(<<Content(FinancialsJson)>>),
    ApiReply(<<Content(<<"{">> \o JsonMember("Revenue", "unknown") \o <<"}", NL>>)>>),
    ApiReply(<<Content(JsonStr("no data"))>>),
    ApiReply(<<Content(<<"~~~json", NL>> \o FinancialsJson \o <<NL, "~~~">>)>>),
    ApiReply(<<Content(SubSeq(FinancialsJson, 1, Len(FinancialsJson) - 1))>>),
    ApiReply(<<Content(FinancialsJson \o <<NL, "Note: estimates">>)>>),
    ApiReply(<<Content(<<>>)>>),
    ApiReply(<<NoContent>>),
    ApiReply(<<>>) }

\* the replies to the trends prompt
TrendsReplies == {
    ApiReply(<<Content(<<NL, "- Cloud leader", NL, "- AI focus", NL, " ">>)>>),
    ApiReply(<<Content(<<>>)>>),
    ApiReply(<<NoContent>>),
    ApiReply(<<>>) }

\* test_vendors of main
TestVendors == <<"Microsoft", "AWS", "Google">>

InitProfile ==
    /\ test_vendors = TestVendors
    /\ built = <<>>
    /\ apiOutcome = [kind |-> None]
    /\ returned = [raised |-> FALSE, fn |-> None]
    /\ vdgPc = "financials"
    /\ SrIdle
    /\ TblIdle
    /\ RunIdle
    /\ PrepIdle

\* line 134: the lookup of the financials of the vendor the loop is at; an
\* exception that leaves the lookup ends main
GetVendorFinancials ==
    /\ vdgPc = "financials"
    /\ Len(test_vendors) > 0
    /\ \E outcome \in {ApiRaises} \cup FinancialsReplies :
        /\ apiOutcome' = outcome
        /\ returned' = get_vendor_financials(outcome)
    /\ vdgPc' = IF returned'.raised THEN "aborted" ELSE "trends"
    /\ UNCHANGED <<test_vendors, built>>
    /\ UNCHANGED <<srVars, tblVars, inputVars, runVars, prepVars>>

\* lines 125-139: the lookup of the trends, and the profile stored
GetMarketTrends ==
    /\ vdgPc = "trends"
    /\ \E outcome \in {ApiRaises} \cup TrendsReplies :
        /\ apiOutcome' = outcome
        /\ returned' = get_market_trends(outcome)
    /\ IF returned'.raised
       THEN /\ vdgPc' = "aborted"
            /\ UNCHANGED <<test_vendors, built>>
       ELSE /\ built' = (Head(test_vendors) :>
                  [ KeyAccountManagers |-> <<"Manager 1", "Manager 2">>,
                    KeyStakeholders |-> <<"Stakeholder 1", "Stakeholder 2">>,
                    Financials |-> returned.value,
                    MarketTrends |-> returned'.value,
                    Strategy |-> <<"- Negotiate competitive pricing.", NL,
                                   "- Enhance collaboration.">>,
                    Msg |-> <<"- Strengthen partnership.">> ]) @@ built
            /\ test_vendors' = Tail(test_vendors)
            /\ vdgPc' = "financials"
    /\ UNCHANGED <<srVars, tblVars, inputVars, runVars, prepVars>>

NextProfile == GetVendorFinancials \/ GetMarketTrends

SpecProfile == InitProfile /\ [][NextProfile]_vars

(***************************************************************************)
(* Properties of the run (Spec).                                           *)
(***************************************************************************)
HasSpend(v) == Len(RowsWhere(it_spend, "vendor", v)) # 0
HasProfile(v) == v \in DOMAIN all_vendors_data
Persisted(v) == DocPath(v) \in DOMAIN outputFiles
RunEnded == pc \in {"done", "aborted"}

\* the token is in the text of some text shape of the slide
TokenLeft(shapes, token) ==
    \E i \in 1..Len(shapes) :
        /\ shapes[i].has_text_frame
        /\ Contains(FrameText(shapes[i].paragraphs), token)

\* the steps of v's iteration succeed: it has a spend row to chart, and its
\* profile, if any, has every key the placeholder map reads
StepsSucceed(v) ==
    /\ HasSpend(v)
    /\ (HasProfile(v) => ProfileKeys \subseteq DOMAIN all_vendors_data[v])

\* C1: a roster vendor whose spend slice is empty is skipped: no document is
\* written for it, no error leaves the loop because of it, and the other vendors
\* are still processed (where no other step can fail, the run ends with the loop
\* finished and a document for every vendor that has spend rows).
C1_EmptySliceSkipped ==
    /\ \A v \in vendors : ~HasSpend(v) => ~Persisted(v)
    /\ (pc = "aborted" => HasSpend(vendor))
    /\ (RunEnded /\ (\A v \in vendors : HasSpend(v) => StepsSucceed(v))) =>
           /\ pc = "done"
           /\ \A v \in vendors : HasSpend(v) => Persisted(v)

\* C2: a failure in one vendor's chart, image, table or placeholder step stays
\* in that vendor's iteration: when the run has ended over a roster in which
\* every vendor has spend rows, every vendor whose own steps succeed has its
\* document persisted.
C2_FailureContained ==
    (RunEnded /\ \A v \in vendors : HasSpend(v)) =>
        \A v \in vendors : StepsSucceed(v) => Persisted(v)

\* C3: a vendor with spend data and no profile has, once the run is over, a
\* persisted document in which the token [Financials] no longer appears.
C3_NoProfileFinancialsReplaced ==
    \A v \in vendors :
        (HasSpend(v) /\ ~HasProfile(v)) =>
            /\ (pc = "done" => Persisted(v))
            /\ (Persisted(v) => ~TokenLeft(outputFiles[DocPath(v)], <<"[Financials]">>))

\* C4: in every persisted document, with or without a profile, the tokens
\* [Vendor Name] and [Timestamp] have been substituted.
C4_NameAndTimestampReplaced ==
    \A v \in vendors :
        Persisted(v) =>
            /\ ~TokenLeft(outputFiles[DocPath(v)], <<"[Vendor Name]">>)
            /\ ~TokenLeft(outputFiles[DocPath(v)], <<"[Timestamp]">>)

\* the shapes of a slide that are pictures, and those that are tables
Pictures(shapes) == SelectSeq(shapes, LAMBDA sh : ~sh.has_text_frame /\ sh.kind = "picture")
Tables(shapes) == SelectSeq(shapes, LAMBDA sh : ~sh.has_text_frame /\ sh.kind = "table")

\* shapes is what an iteration for v adds to the template: the template's text
\* shapes, one picture of v's chart file, v's contracts and projects tables
AddedFor(shapes, v) ==
    /\ Len(shapes) = Len(template) + 3
    /\ \A i \in 1..Len(template) : shapes[i].has_text_frame
    /\ Pictures(shapes) = <<OtherShape("picture", ChartPath(v))>>
    /\ Tables(shapes) =
           << OtherShape("table", generate_key_contracts_table(
                  RowsWhere(contracting_report, "supplier", v))),
              OtherShape("table", generate_planned_projects_table(
                  RowsWhere(sourcing_event, "supplier", v))) >>

\* C11: after a completed run over a roster in which every vendor has a spend
\* row, each roster vendor has one document at {vendor}_Vendor_Fact_Sheet.pptx
\* and one chart at {vendor}_spend_chart.png, both written by this run (a file
\* that was there before is replaced), and the run wrote no file under another
\* name: whatever else the directories hold is an earlier run's file, untouched.
C11_OneDocAndChartPerVendor ==
    (pc = "done" /\ \A v \in vendors : HasSpend(v)) =>
        /\ \A v \in vendors :
            /\ DocPath(v) \in DOMAIN outputFiles
            /\ AddedFor(outputFiles[DocPath(v)], v)
            /\ ChartPath(v) \in DOMAIN plotFiles
            /\ plotFiles[ChartPath(v)] = RowsWhere(it_spend, "vendor", v)[1]
        /\ \A p \in DOMAIN outputFiles \ {DocPath(v) : v \in vendors} :
            /\ p \in {DocPath(v) : v \in existing}
            /\ outputFiles[p] = EarlierDoc
        /\ \A p \in DOMAIN plotFiles \ {ChartPath(v) : v \in vendors} :
            /\ p \in {ChartPath(v) : v \in existing}
            /\ plotFiles[p] = EarlierChart
        /\ Cardinality(DOMAIN outputFiles) = Cardinality(vendors \cup existing)
        /\ Cardinality(DOMAIN plotFiles) = Cardinality(vendors \cup existing)

\* a run over two vendors is done; one of them had files of an earlier run,
\* which also left files of a vendor that is not in the roster
C11_Witness ==
    /\ pc = "done"
    /\ Cardinality(vendors) >= 2
    /\ existing = EarlierVendors
    /\ "Acme" \in vendors
    /\ outputFiles[DocPath("Acme")] # EarlierDoc
    /\ outputFiles[DocPath("Zeta")] = EarlierDoc

\* nothing on the slide comes from a vendor other than v: every picture is v's
\* chart, there is at most one picture, at most v's two tables in their order,
\* and no text names another roster vendor
OnlyFrom(shapes, v) ==
    /\ Len(Pictures(shapes)) <= 1
    /\ \A i \in 1..Len(Pictures(shapes)) : Pictures(shapes)[i].content = ChartPath(v)
    /\ Len(Tables(shapes)) <= 2
    /\ Len(shapes) = Len(template) + Len(Pictures(shapes)) + Len(Tables(shapes))
    /\ \A w \in vendors \ {v} : ~TokenLeft(shapes, <<w>>)

\* C14: each iteration starts from the template as it is on file: at the start
\* of an iteration the working document is the template, during the iteration
\* it holds nothing from another vendor (no picture, table or substituted text),
\* so neither does any persisted document, and the template stays what it was.
C14_FreshTemplateCopy ==
    /\ template = TemplateSlide
    /\ (pc = "chart" => prs = template)
    /\ (pc \in {"chart", "image", "contracts", "projects", "placeholders", "save",
                 "aborted"} => OnlyFrom(prs, vendor))
    /\ \A v \in vendors : Persisted(v) => OnlyFrom(outputFiles[DocPath(v)], v)

\* the document of a second vendor is ready to be saved with its own name in
\* it, after the document of a vendor before it was saved with that one's name
C14_Witness ==
    /\ pc = "save"
    /\ TokenLeft(prs, <<vendor>>)
    /\ \E w \in vendors \ {vendor} :
        /\ Persisted(w)
        /\ TokenLeft(outputFiles[DocPath(w)], <<w>>)
        /\ Len(Tables(outputFiles[DocPath(w)])) = 2

\* the vendors whose iteration has run to its end (the save at line 480)
Completed ==
    {v \in vendors \ todo : v # vendor \/ pc \in {"top", "done"}}

\* the persisted documents are those of the completed vendors
C15_OnlyCompletedPersisted ==
    {v \in vendors : Persisted(v)} = Completed

\* a step of the run leaves every file of the output directory as it is
C15_DocumentsKept ==
    \A p \in DOMAIN outputFiles :
        /\ p \in DOMAIN outputFiles'
        /\ outputFiles'[p] = outputFiles[p]

\* one vendor at a time is in work, and only after the one before was saved
C15_OneAtATime ==
    /\ Cardinality(vendors \ (todo \cup Completed)) <= 1
    /\ (pc \in {"top", "done"} => vendors \ todo = Completed)

\* C15: vendors are processed one after another: in every state of a run the
\* persisted documents are exactly those of the vendors whose iteration has
\* completed, at most one vendor is in work, and no step, a failing one
\* included, removes or changes a document that was already written.
C15_Sequential ==
    /\ [](C15_OnlyCompletedPersisted /\ C15_OneAtATime)
    /\ [][C15_DocumentsKept]_vars

\* the run was ended by a failure in the iteration of a vendor that came after
\* two vendors whose documents had been written
C15_Witness ==
    /\ pc = "aborted"
    /\ Cardinality(Completed) = 2
    /\ \A v \in Completed : Persisted(v) /\ AddedFor(outputFiles[DocPath(v)], v)
    /\ ~Persisted(vendor)

(***************************************************************************)
(* Properties of the preparation functions (SpecPrep).                     *)
(***************************************************************************)
\* the names a dataset holds in its vendor column
NamesIn(frame, field) == {n \in Vendors : \E i \in 1..Len(frame) : frame[i][field] = n}

\* C12: the roster extract_unique_vendors returns is the union of the three
\* datasets' vendor names: a name is in the roster exactly when some row of
\* some dataset holds it (one dataset is enough), the roster is no smaller than
\* any dataset's set of names, and a dataset without rows adds nothing.
C12_RosterIsUnion ==
    prepStatus = "extracted" =>
        LET a == NamesIn(it_spend, "vendor")
            b == NamesIn(contracting_report, "supplier")
            c == NamesIn(sourcing_event, "supplier")
        IN  /\ \A n \in unique_vendors : n \in a \/ n \in b \/ n \in c
            /\ \A n \in Vendors : (n \in a \/ n \in b \/ n \in c) => n \in unique_vendors
            /\ Cardinality(unique_vendors) >= Cardinality(a)
            /\ Cardinality(unique_vendors) >= Cardinality(b)
            /\ Cardinality(unique_vendors) >= Cardinality(c)
            /\ (Len(it_spend) = 0 => unique_vendors = b \cup c)
            /\ (Len(contracting_report) = 0 => unique_vendors = a \cup c)
            /\ (Len(sourcing_event) = 0 => unique_vendors = a \cup b)

\* the roster was taken from a spend frame that names one vendor twice, an
\* empty contracts dataset and a sourcing dataset with a vendor of its own
C12_Witness ==
    /\ prepStatus = "extracted"
    /\ Len(it_spend) = 2
    /\ it_spend[1].vendor = it_spend[2].vendor
    /\ Len(contracting_report) = 0
    /\ "Cato" \in unique_vendors
    /\ Cardinality(unique_vendors) = 3

\* lo <= x <= hi for x = value/100, lo = 0.8 * base/100, hi = 1.2 * base/100,
\* the ends swapped when base is negative
Within20Percent(value, base) ==
    IF base >= 0 THEN 80 * base <= 100 * value /\ 100 * value <= 120 * base
    ELSE 120 * base <= 100 * value /\ 100 * value <= 80 * base

\* C13: the frame simulate_historical_spend returns has the input's rows with
\* their spend2024 as it was (the input frame itself is not touched); for every
\* row with spend2024 >= 0, spend2023 is within spend2024 x [0.8, 1.2],
\* spend2022 is within that row's spend2023 x [0.8, 1.2], hence within
\* spend2024 x [0.64, 1.44], and both are >= 0.
C13_SimulatedWithinRange ==
    prepStatus = "simulated" =>
        /\ Len(simulated_data) = Len(it_spend)
        /\ \A i \in 1..Len(it_spend) :
            LET in == it_spend[i]
                out == simulated_data[i]
            IN  /\ DOMAIN in = {"vendor", "spend2024"}
                /\ out.vendor = in.vendor
                /\ out.spend2024 = in.spend2024
                /\ in.spend2024 >= 0 =>
                       /\ Within20Percent(out.spend2023, in.spend2024)
                       /\ Within20Percent(out.spend2022, out.spend2023)
                       /\ 6400 * in.spend2024 <= 10000 * out.spend2022
                       /\ 10000 * out.spend2022 <= 14400 * in.spend2024
                       /\ out.spend2023 >= 0
                       /\ out.spend2022 >= 0

\* a row with a positive spend got the lowest 2023 value and, from it, the
\* highest 2022 value
C13_Witness ==
    /\ prepStatus = "simulated"
    /\ \E i \in 1..Len(it_spend) :
        /\ it_spend[i].spend2024 > 0
        /\ 100 * simulated_data[i].spend2023 = 80 * it_spend[i].spend2024
        /\ 100 * simulated_data[i].spend2022 = 120 * simulated_data[i].spend2023

(***************************************************************************)
(* Properties of the profile lookups (SpecProfile).                        *)
(***************************************************************************)
\* the reply holds a text, and json.loads takes it / does not take it
ReplyText(outcome) ==
    /\ outcome.kind = "reply"
    /\ Len(outcome.choices) > 0
    /\ outcome.choices[1].k = "text"
ValidJson(outcome) == ReplyText(outcome) /\ json_loads(outcome.choices[1].text).ok
InvalidJson(outcome) == ReplyText(outcome) /\ ~json_loads(outcome.choices[1].text).ok

\* the value is the dict with the three fields set to "Data not available"
AllNotAvailable(value) ==
    /\ value.k = "dict"
    /\ DOMAIN value.v = {"Revenue", "MarketCap", "GrowthRate"}
    /\ \A key \in DOMAIN value.v : value.v[key] = "Data not available"

\* C16: a lookup never ends its caller. Whatever the external call does,
\* get_vendor_financials returns a value; when the call raised or the reply is
\* not valid JSON, that value has Revenue, MarketCap and GrowthRate all equal to
\* "Data not available"; when the reply is valid JSON, it is the parsed reply.
\* get_market_trends returns too, and gives the fixed text "- Market trend data
\* not available" when its call raised.
C16_LookupsNeverRaise ==
    /\ vdgPc # "aborted"
    /\ ~returned.raised
    /\ returned.fn = "get_vendor_financials" =>
           /\ (apiOutcome.kind = "raises" => AllNotAvailable(returned.value))
           /\ (InvalidJson(apiOutcome) => AllNotAvailable(returned.value))
           /\ (ValidJson(apiOutcome) =>
                  LET parsed == json_loads(apiOutcome.choices[1].text).value IN
                  /\ returned.value.k = parsed.k
                  /\ returned.value.v = parsed.v)
    /\ returned.fn = "get_market_trends" =>
           /\ returned.value.k = "str"
           /\ (apiOutcome.kind = "raises" =>
                  returned.value.v = <<"- Market trend data not available">>)

\* the three profiles are built: one after a financials lookup that fell back,
\* one with the financials the reply held, and the last trends call raised
C16_Witness ==
    /\ vdgPc = "financials"
    /\ test_vendors = <<>>
    /\ AllNotAvailable(built["Microsoft"].Financials)
    /\ built["AWS"].Financials.k = "dict"
    /\ DOMAIN built["AWS"].Financials.v = {"Revenue", "MarketCap", "GrowthRate"}
    /\ built["AWS"].Financials.v["Revenue"] = "100 USD"
    /\ returned.fn = "get_market_trends"
    /\ apiOutcome.kind = "raises"
    /\ built["Google"].MarketTrends.v = <<"- Market trend data not available">>

(***************************************************************************)
(* Properties of the table formatters (SpecTable).                         *)
(***************************************************************************)
TblDone == tblStatus \in {"contracts", "projects"}
\* the rows of the table below the header
TblBody == SubSeq(tblTable.cells, 2, Len(tblTable.cells))
TblTexts(row) == [c \in 1..Len(row) |-> row[c].text]
\* the cell texts of input row r
TblExpected(r) ==
    IF tblStatus = "contracts" THEN ContractCells(tblData.rows[r])
    ELSE ProjectCells(tblData.rows[r])

\* C5: both tables (cap 4 for contracts, 3 for projects): no input row gives the
\* header and one row of empty cells; more rows than the cap give exactly cap
\* rows, the first cap input rows in order; 1..cap rows give that many rows in
\* order; a table never has zero data rows.
C5_TableRows ==
    TblDone =>
        LET n == Len(tblData.rows)
            cap == IF tblStatus = "contracts" THEN 4 ELSE 3
            shown == IF n = 0 THEN 1 ELSE IF n > cap THEN cap ELSE n
        IN  /\ Len(tblTable.cells) = shown + 1
            /\ Len(TblBody) >= 1
            /\ TblTexts(tblTable.cells[1]) =
                   [c \in 1..Len(tblTable.cells[1]) |->
                       <<(IF tblStatus = "contracts" THEN ContractHeaders
                          ELSE ProjectHeaders)[c]>>]
            /\ (n = 0 => \A c \in 1..Len(TblBody[1]) : TblBody[1][c].text = <<>>)
            /\ (n > 0 => \A r \in 1..shown : TblTexts(TblBody[r]) = TblExpected(r))

\* a table of cap rows was built from more than cap rows
C5_Witness ==
    /\ tblStatus = "projects"
    /\ Len(tblData.rows) > 3
    /\ Len(TblBody) = 3
    /\ tblData.rows[1] # tblData.rows[2]

\* C6: the Term cell of every contract row is "{startYear}-{endYear}" when both
\* dates are present and "N/A" when either is missing.
C6_TermCell ==
    (tblStatus = "contracts" /\ Len(tblData.rows) > 0) =>
        \A r \in 1..Len(TblBody) :
            LET row == tblData.rows[r] IN
            TblBody[r][4].text =
                IF row.effective.k = "ts" /\ row.expiration.k = "ts"
                THEN IntToStr(row.effective.year) \o <<"-">> \o IntToStr(row.expiration.year)
                ELSE <<"N", "/", "A">>

\* the cell holds the first L symbols of str(value), L = limit
CutTo(cell, value, limit) ==
    LET str == PyStr(value) IN
    /\ Len(cell.text) <= limit
    /\ Len(cell.text) = (IF Len(str) < limit THEN Len(str) ELSE limit)
    /\ \A i \in 1..Len(cell.text) : cell.text[i] = str[i]

\* C7: every data cell of a column with a character limit holds the first L
\* characters of its source value's string and nothing more (contracts: ID 8,
\* Name 15, Short description 25; projects: Project 8, Name 20, Short
\* Description 30).
C7_CellsCut ==
    (TblDone /\ Len(tblData.rows) > 0) =>
        \A r \in 1..Len(TblBody) :
            LET row == tblData.rows[r]
                cells == TblBody[r]
            IN  IF tblStatus = "contracts"
                THEN /\ CutTo(cells[1], row.id, 8)
                     /\ CutTo(cells[2], row.name, 15)
                     /\ CutTo(cells[3], row.description, 25)
                ELSE /\ CutTo(cells[1], row.id, 8)
                     /\ CutTo(cells[2], row.name, 20)
                     /\ CutTo(cells[3], row.description, 30)

\* a description longer than its limit was cut
C7_Witness ==
    /\ tblStatus = "contracts"
    /\ \E r \in 1..Len(TblBody) :
        /\ r <= Len(tblData.rows)
        /\ Len(PyStr(tblData.rows[r].description)) > 25
        /\ Len(TblBody[r][3].text) = 25

(***************************************************************************)
(* Properties of search_and_replace (SpecSR).                              *)
(***************************************************************************)
SrSingleLine == ~Contains(srRepl, <<NL>>)
SrNoBracket == \A i \in 1..Len(srRepl) : srRepl[i] \notin {"[", "]"}
SrHasToken(shape) ==
    shape.has_text_frame /\ Contains(FrameText(shape.paragraphs), Tok)

\* the symbols of a paragraph with their fonts, those of the token and of the
\* replacement value left out: the text the call is not about
SrOtherText(para) ==
    LET styled(k) == [j \in 1..Len(para[k].text) |-> <<para[k].text[j], para[k].font>>]
        all == Join([k \in 1..Len(para) |-> styled(k)], <<>>)
    IN  SelectSeq(all, LAMBDA c : c[1] \notin {"[", "T", "]", "x"})

\* C8: a call with a single-line value that holds no bracket token changes only
\* the target text: a shape without the token is unchanged, and in a shape with
\* the token every paragraph is still there and every symbol outside the token
\* keeps its place and its font (name, size, bold, italic).
C8_OnlyTargetChanges ==
    (srStatus = "returned" /\ SrSingleLine /\ SrNoBracket) =>
        /\ Len(srAfter) = Len(srBefore)
        /\ \A i \in 1..Len(srBefore) :
            LET b == srBefore[i]
                a == srAfter[i]
            IN  IF ~SrHasToken(b) THEN a = b
                ELSE /\ a.has_text_frame
                     /\ Len(a.paragraphs) = Len(b.paragraphs)
                     /\ \A p \in 1..Len(b.paragraphs) :
                         SrOtherText(a.paragraphs[p]) = SrOtherText(b.paragraphs[p])

\* C9: a call with a value of N lines leaves every shape whose first paragraph
\* held the token with exactly N paragraphs: the first is the old first
\* paragraph with the token replaced by line 1, paragraph i holds line i, and
\* every run has the font of the old first run.
C9_MultiLine ==
    srStatus # "ready" =>
        \A i \in 1..Len(srBefore) :
            LET b == srBefore[i]
                a == srAfter[i]
                lines == SplitLines(srRepl)
            IN  (b.has_text_frame /\ Contains(ParaText(b.paragraphs[1]), Tok)) =>
                    /\ srStatus = "returned"
                    /\ Len(a.paragraphs) = Len(lines)
                    /\ ParaText(a.paragraphs[1]) =
                           StrReplace(ParaText(b.paragraphs[1]), Tok, lines[1])
                    /\ \A k \in 2..Len(lines) : ParaText(a.paragraphs[k]) = lines[k]
                    /\ \A k \in 1..Len(a.paragraphs) :
                         \A j \in 1..Len(a.paragraphs[k]) :
                             a.paragraphs[k][j].font = b.paragraphs[1][1].font

\* C10: after a call whose value does not hold the token, no shape's text holds
\* the token, wherever in the shape it was (first paragraph or a later one).
C10_TokenGone ==
    (srStatus = "returned" /\ ~Contains(srRepl, Tok)) =>
        \A i \in 1..Len(srAfter) : ~SrHasToken(srAfter[i])

====
